---- MODULE Spec2Model ----
(***************************************************************************)
(* Model of the useMediaDevice React hook (src/useMediaDevice.ts).         *)
(*                                                                         *)
(* The hook keeps two pieces of React state, `devices` and `activeStream`, *)
(* and one effect that subscribes to "devicechange" and whose cleanup      *)
(* stops the tracks of the stream it captured.  The callbacks returned by  *)
(* the hook close over the `activeStream` value of the render that created *)
(* them, so the model separates the state value (activeStream) from the    *)
(* value captured by the last committed render (closure).                  *)
(*                                                                         *)
(* The platform (navigator.mediaDevices, navigator.permissions) is the     *)
(* environment: getUserMedia, enumerateDevices and permissions.query       *)
(* resolve or reject nondeterministically at a later step.                 *)
(***************************************************************************)
EXTENDS Integers, Sequences, FiniteSets, TLC

(* ----------------------------- bounds ---------------------------------- *)
MaxCalls   == 3      \* toggle calls issued in one behaviour
MaxPending == 1      \* enumerateDevices calls in flight when a render commits
MaxToggles == 2      \* toggle calls issued next to a requestPermission
MaxRefresh == 2      \* enumerateDevices calls in flight after a notification
MaxStops   == 1      \* stop() calls a track receives from effect re-runs
MaxLen     == 3      \* length of an enumerated device list (query model)

(* ----------------------------- values ---------------------------------- *)
NoStream == 0
\* Every stream comes from one toggle call, so MaxCalls bounds them.
StreamIds == 1..MaxCalls

TrackKinds == {"audio", "video"}
OtherKind(k) == IF k = "audio" THEN "video" ELSE "audio"

\* A track is named by the stream getUserMedia created it in and its kind.
TrackIds == StreamIds \X TrackKinds

\* deviceId?: string -- "" stands for an absent (falsy) argument.
DeviceIdArgs == {"", "d1"}

\* onDeviceChanged identities a render can pass; "none" is undefined.
CallbackIds == {"none", "f"}

ToggleOps == {"toggleMicrophone", "toggleCamera"}
KindOf(op) == IF op = "toggleMicrophone" THEN "audio" ELSE "video"

DeviceKinds == {"videoinput", "audioinput", "audiooutput"}
DeviceInfo == [deviceId : {"d1", "d2"}, kind : DeviceKinds]

\* The device lists the platform moves between in the lifecycle model.
PlatformLists ==
    { << [deviceId |-> "d1", kind |-> "audioinput"] >>,
      << [deviceId |-> "d1", kind |-> "audioinput"],
         [deviceId |-> "d2", kind |-> "videoinput"] >> }

VARIABLES
    mounted,          \* the component is mounted (teardown has not run)
    devices,          \* useState devices
    activeStream,     \* useState activeStream (NoStream is null)
    closure,          \* activeStream captured by the last committed render
    onDeviceChanged,  \* callback identity captured by updateDevices
    listeners,        \* "devicechange" listeners attached to the platform
    pendingEnum,      \* updateDevices calls awaiting enumerateDevices
    lastNotified,     \* the last onDeviceChanged invocation, << >> if none
    platformDevices,  \* what enumerateDevices reports now
    nextStream,       \* next stream id getUserMedia hands out
    streamTracks,     \* stream id -> sequence of its tracks
    trackState,       \* track id -> [enabled, stops, device]
    inflight,         \* toggle calls suspended in getUserMedia, by issue
    returns,          \* returned toggle calls, in the order they returned
    overlapped,       \* some toggle call was issued while another was pending
    permState,        \* navigator.permissions: permission name -> state
    permCall,         \* the checkPermissions / requestPermission call
    query             \* the getDevices / getCameras / ... call

hookVars == << mounted, devices, activeStream, closure, onDeviceChanged,
               listeners, pendingEnum, lastNotified, platformDevices,
               nextStream, streamTracks, trackState, inflight, returns,
               overlapped >>

envVars == << permState, permCall, query >>

vars == << hookVars, envVars >>

(* ------------------------ MediaStream helpers -------------------------- *)
\* MediaStream.getAudioTracks() / getVideoTracks()
TracksOfKind(seq, k) == SelectSeq(seq, LAMBDA t : t[2] = k)

\* MediaStream.getTracks()
GetTracks(s) == IF s = NoStream THEN << >> ELSE streamTracks[s]

SeqRange(seq) == { seq[i] : i \in 1..Len(seq) }

\* MediaStreamTrack.readyState = "live": stop() was never called on it.
Live(ts, t) == ts[t].stops = 0

\* track.stop() on every track of the set
StopAll(ts, set) ==
    [ t \in TrackIds |-> IF t \in set
                         THEN [ts[t] EXCEPT !.stops = @ + 1]
                         ELSE ts[t] ]

RECURSIVE AddTracks(_, _)
\* forEach(track => stream.addTrack(track)); addTrack ignores a member.
AddTracks(seq, new) ==
    IF new = << >> THEN seq
    ELSE AddTracks(IF Head(new) \in SeqRange(seq) THEN seq
                   ELSE Append(seq, Head(new)), Tail(new))

\* getUserMedia({audio: deviceId ? {deviceId: {exact: deviceId}} : true})
Constraint(deviceId) == IF deviceId = "" THEN "default" ELSE deviceId

(* ------------------- updateDevices (lines 24-30) ----------------------- *)
\* updateDevices() up to its await: enumerateDevices is issued; the call
\* keeps the onDeviceChanged identity its closure captured.
\* `stale` records that an enumeration issued later has already succeeded.
IssueEnum(pending, cb, list) ==
    Append(pending, [cb |-> cb, list |-> list, stale |-> FALSE])

RemoveAt(seq, j) ==
    [ i \in 1..(Len(seq) - 1) |-> IF i < j THEN seq[i] ELSE seq[i + 1] ]

callVars == << inflight, returns, overlapped >>
streamVars == << nextStream, streamTracks, trackState >>

\* The calls issued before the j-th are overtaken when the j-th succeeds.
MarkStale(pending, j) ==
    [ i \in 1..Len(pending) |->
        IF i < j THEN [pending[i] EXCEPT !.stale = TRUE] ELSE pending[i] ]

\* An updateDevices that hands the callback the `devices` of its render.
EnumResolveMutant(j) ==
    /\ j \in 1..Len(pendingEnum)
    /\ devices' = IF mounted THEN pendingEnum[j].list ELSE devices
    /\ lastNotified' = IF pendingEnum[j].cb # "none"
                       THEN << [cb |-> pendingEnum[j].cb, list |-> devices] >>
                       ELSE lastNotified
    /\ pendingEnum' = RemoveAt(MarkStale(pendingEnum, j), j)
    /\ UNCHANGED << mounted, activeStream, closure, onDeviceChanged, listeners,
                    platformDevices, streamVars, callVars >>
    /\ UNCHANGED envVars

\* enumerateDevices resolved: setDevices(newDevices), then the callback.
\* A state update of an unmounted component is dropped by React.
EnumResolve(j) ==
    /\ j \in 1..Len(pendingEnum)
    /\ devices' = IF mounted THEN pendingEnum[j].list ELSE devices
    /\ lastNotified' = IF pendingEnum[j].cb # "none"
                       THEN << [cb |-> pendingEnum[j].cb,
                                list |-> pendingEnum[j].list] >>
                       ELSE lastNotified
    /\ pendingEnum' = RemoveAt(MarkStale(pendingEnum, j), j)
    /\ UNCHANGED << mounted, activeStream, closure, onDeviceChanged, listeners,
                    platformDevices, streamVars, callVars >>
    /\ UNCHANGED envVars

\* enumerateDevices rejected: updateDevices rejects, nothing is set.
EnumReject(j) ==
    /\ j \in 1..Len(pendingEnum)
    /\ pendingEnum' = RemoveAt(pendingEnum, j)
    /\ UNCHANGED << mounted, devices, activeStream, closure, onDeviceChanged,
                    listeners, lastNotified, platformDevices, streamVars,
                    callVars >>
    /\ UNCHANGED envVars

RECURSIVE IssueAll(_, _, _)
\* "devicechange" dispatched: every attached listener (an updateDevices)
\* is called once.
IssueAll(pending, cbs, list) ==
    IF cbs = {} THEN pending
    ELSE LET cb == CHOOSE c \in cbs : TRUE
         IN  IssueAll(IssueEnum(pending, cb, list), cbs \ {cb}, list)

\* The platform's device set changes and "devicechange" is dispatched.
DeviceChange(list) ==
    /\ list \in PlatformLists
    /\ list # platformDevices
    /\ Len(pendingEnum) + Cardinality(listeners) <= MaxRefresh
    /\ platformDevices' = list
    /\ pendingEnum' = IssueAll(pendingEnum, listeners, list)
    /\ UNCHANGED << mounted, devices, activeStream, closure, onDeviceChanged,
                    listeners, lastNotified, streamVars, callVars >>
    /\ UNCHANGED envVars

(* ---------------------- useEffect (lines 32-43) ------------------------ *)
\* A cleanup that forgets removeEventListener.
CleanupListenersMutant == listeners

\* The cleanup of the committed effect: removeEventListener with the
\* updateDevices it captured, then stop() on every track of the stream it
\* captured.
CleanupListeners == listeners \ { onDeviceChanged }

CleanupTracks == StopAll(trackState, SeqRange(GetTracks(closure)))

\* A render commits with callback identity cb.  The effect's dependencies
\* are [updateDevices, activeStream]; updateDevices changes identity exactly
\* when onDeviceChanged does.  When a dependency changed, the old cleanup
\* runs and the effect runs again: updateDevices() and addEventListener.
\* A render that changes no dependency changes nothing the model holds.
Render(cb) ==
    /\ mounted
    /\ cb \in CallbackIds
    /\ cb # onDeviceChanged \/ activeStream # closure
    /\ Len(pendingEnum) < MaxPending
    /\ activeStream = closure =>
          \A t \in SeqRange(GetTracks(closure)) : trackState[t].stops < MaxStops
    /\ trackState' = CleanupTracks
    /\ listeners' = CleanupListeners \cup { cb }
    /\ pendingEnum' = IssueEnum(pendingEnum, cb, platformDevices)
    /\ closure' = activeStream
    /\ onDeviceChanged' = cb
    /\ UNCHANGED << mounted, devices, activeStream, lastNotified,
                    platformDevices, nextStream, streamTracks, callVars >>
    /\ UNCHANGED envVars

\* Unmount: the cleanup of the last committed effect runs, nothing else.
Unmount ==
    /\ mounted
    /\ mounted' = FALSE
    /\ trackState' = CleanupTracks
    /\ listeners' = CleanupListeners
    /\ UNCHANGED << devices, activeStream, closure, onDeviceChanged,
                    pendingEnum, lastNotified, platformDevices, nextStream,
                    streamTracks, callVars >>
    /\ UNCHANGED envVars

(* ------------- toggleMicrophone / toggleCamera (115-173) --------------- *)
\* activeStream.getAudioTracks()[0] of the captured stream, << >> if none.
FirstTrack(a, k) ==
    LET ts == TracksOfKind(GetTracks(a), k)
    IN  IF ts = << >> THEN << >> ELSE << Head(ts) >>

\* A call through the callbacks of the last committed render.  With a track
\* of its kind in the captured stream it flips `enabled` and returns the new
\* flag; otherwise it issues getUserMedia and suspends.
ToggleCall(op, deviceId) ==
    /\ mounted
    /\ Len(returns) + Len(inflight) < MaxCalls
    /\ op \in ToggleOps
    /\ deviceId \in DeviceIdArgs
    /\ overlapped' = (overlapped \/ inflight # << >>)
    /\ LET ft == FirstTrack(closure, KindOf(op))
       IN  IF ft # << >>
           THEN /\ trackState' = [trackState EXCEPT ![ft[1]].enabled = ~ @]
                /\ returns' = Append(returns,
                      [op |-> op, deviceId |-> deviceId, outcome |-> "none",
                       ret |-> trackState'[ft[1]].enabled])
                /\ inflight' = inflight
           ELSE /\ inflight' = Append(inflight,
                      [op |-> op, deviceId |-> deviceId, closure |-> closure])
                /\ UNCHANGED << trackState, returns >>
    /\ UNCHANGED << mounted, devices, activeStream, closure, onDeviceChanged,
                    listeners, pendingEnum, lastNotified, platformDevices,
                    nextStream, streamTracks >>
    /\ UNCHANGED envVars

\* The stream getUserMedia resolves with: one track of the requested kind.
NewStreamTracks(s, k) == << << s, k >> >>

\* A resolution that adopts its stream only when nothing was adopted since
\* the call captured the active stream.
ToggleResolveMutant(i) ==
    /\ i \in 1..Len(inflight)
    /\ nextStream \in StreamIds
    /\ LET s == nextStream
           c == inflight[i]
           k == KindOf(c.op)
           a == c.closure
           new == NewStreamTracks(s, k)
           created == [trackState EXCEPT
                         ![<< s, k >>] = [enabled |-> TRUE, stops |-> 0,
                                          device |-> Constraint(c.deviceId)]]
       IN  /\ nextStream' = s + 1
           /\ trackState' =
                 IF a # NoStream
                 THEN StopAll(created, SeqRange(TracksOfKind(GetTracks(a), k)))
                 ELSE created
           /\ streamTracks' =
                 IF a # NoStream
                 THEN [streamTracks EXCEPT
                         ![s] = new,
                         ![a] = AddTracks(@, TracksOfKind(new, OtherKind(k)))]
                 ELSE [streamTracks EXCEPT ![s] = new]
           /\ activeStream' = IF mounted /\ activeStream = a
                               THEN s ELSE activeStream
           /\ returns' = Append(returns,
                 [op |-> c.op, deviceId |-> c.deviceId,
                  outcome |-> "resolved", ret |-> TRUE])
    /\ inflight' = RemoveAt(inflight, i)
    /\ UNCHANGED << mounted, devices, closure, onDeviceChanged, listeners,
                    pendingEnum, lastNotified, platformDevices, overlapped >>
    /\ UNCHANGED envVars

\* getUserMedia resolved for the i-th pending call (lines 129-136): on the
\* captured stream, stop its tracks of the call's kind and add to it the new
\* stream's tracks of the other kind; then setActiveStream(stream) and
\* return true.
ToggleResolve(i) ==
    /\ i \in 1..Len(inflight)
    /\ nextStream \in StreamIds
    /\ LET s == nextStream
           c == inflight[i]
           k == KindOf(c.op)
           a == c.closure
           new == NewStreamTracks(s, k)
           created == [trackState EXCEPT
                         ![<< s, k >>] = [enabled |-> TRUE, stops |-> 0,
                                          device |-> Constraint(c.deviceId)]]
       IN  /\ nextStream' = s + 1
           /\ trackState' =
                 IF a # NoStream
                 THEN StopAll(created, SeqRange(TracksOfKind(GetTracks(a), k)))
                 ELSE created
           /\ streamTracks' =
                 IF a # NoStream
                 THEN [streamTracks EXCEPT
                         ![s] = new,
                         ![a] = AddTracks(@, TracksOfKind(new, OtherKind(k)))]
                 ELSE [streamTracks EXCEPT ![s] = new]
           /\ activeStream' = IF mounted THEN s ELSE activeStream
           /\ returns' = Append(returns,
                 [op |-> c.op, deviceId |-> c.deviceId,
                  outcome |-> "resolved", ret |-> TRUE])
    /\ inflight' = RemoveAt(inflight, i)
    /\ UNCHANGED << mounted, devices, closure, onDeviceChanged, listeners,
                    pendingEnum, lastNotified, platformDevices, overlapped >>
    /\ UNCHANGED envVars

\* A catch block that also drops the active stream.
ToggleRejectMutant(i) ==
    /\ i \in 1..Len(inflight)
    /\ returns' = Append(returns,
          [op |-> inflight[i].op, deviceId |-> inflight[i].deviceId,
           outcome |-> "rejected", ret |-> FALSE])
    /\ inflight' = RemoveAt(inflight, i)
    /\ activeStream' = NoStream
    /\ UNCHANGED << mounted, devices, closure, onDeviceChanged,
                    listeners, pendingEnum, lastNotified, platformDevices,
                    streamVars, overlapped >>
    /\ UNCHANGED envVars

\* getUserMedia rejected for the i-th pending call (lines 137-140): log and
\* return false.
ToggleReject(i) ==
    /\ i \in 1..Len(inflight)
    /\ returns' = Append(returns,
          [op |-> inflight[i].op, deviceId |-> inflight[i].deviceId,
           outcome |-> "rejected", ret |-> FALSE])
    /\ inflight' = RemoveAt(inflight, i)
    /\ UNCHANGED << mounted, devices, activeStream, closure, onDeviceChanged,
                    listeners, pendingEnum, lastNotified, platformDevices,
                    streamVars, overlapped >>
    /\ UNCHANGED envVars

(* ------------------------------ Init ----------------------------------- *)
\* The device list the platform reports when the hook is constructed.
InitialList == << [deviceId |-> "d1", kind |-> "audioinput"] >>

Idle == [pc |-> "idle"]

\* The state after the first render committed and its effect ran:
\* updateDevices() is in flight and the listener is attached.
HookInit(list) ==
    /\ mounted = TRUE
    /\ devices = << >>
    /\ activeStream = NoStream
    /\ closure = NoStream
    /\ onDeviceChanged \in CallbackIds
    /\ listeners = { onDeviceChanged }
    /\ platformDevices = list
    /\ pendingEnum = IssueEnum(<< >>, onDeviceChanged, platformDevices)
    /\ lastNotified = << >>
    /\ nextStream = 1
    /\ streamTracks = [ s \in StreamIds |-> << >> ]
    /\ trackState = [ t \in TrackIds |->
                        [enabled |-> FALSE, stops |-> 0, device |-> "default"] ]
    /\ inflight = << >>
    /\ returns = << >>
    /\ overlapped = FALSE

Init ==
    /\ HookInit(InitialList)
    /\ permState = [ n \in {"camera", "microphone"} |-> "prompt" ]
    /\ permCall = Idle
    /\ query = Idle

(* --------------------------- lifecycle spec ---------------------------- *)
Next ==
    \/ \E op \in ToggleOps, d \in DeviceIdArgs : ToggleCall(op, d)
    \/ \E i \in 1..MaxCalls : ToggleResolve(i)
    \/ \E i \in 1..MaxCalls : ToggleReject(i)
    \/ \E cb \in CallbackIds : Render(cb)
    \/ Unmount
    \/ \E j \in 1..MaxPending : EnumResolve(j)
    \/ \E j \in 1..MaxPending : EnumReject(j)

Spec == Init /\ [][Next]_vars

TypeOK ==
    /\ mounted \in BOOLEAN
    /\ activeStream \in StreamIds \cup {NoStream}
    /\ closure \in StreamIds \cup {NoStream}
    /\ Len(returns) + Len(inflight) <= MaxCalls
    /\ Len(pendingEnum) <= MaxRefresh

(* ---------------------------- refresh spec ----------------------------- *)
\* The device-list refresh on its own: notifications, enumerations and the
\* renders that re-run the effect, without toggle calls.
NextDevices ==
    \/ \E l \in PlatformLists : DeviceChange(l)
    \/ \E j \in 1..MaxRefresh : EnumResolve(j)
    \/ \E j \in 1..MaxRefresh : EnumReject(j)
    \/ \E cb \in CallbackIds : Render(cb)
    \/ Unmount

SpecDevices == Init /\ [][NextDevices]_vars

(* ------------- getDevices and its filters (lines 45-72) ---------------- *)
RECURSIVE FilterKindMutant(_, _)
\* A filter that emits the matches in reverse order.
FilterKindMutant(list, kind) ==
    IF list = << >> THEN << >>
    ELSE FilterKindMutant(Tail(list), kind)
         \o (IF Head(list).kind = kind THEN << Head(list) >> ELSE << >>)

RECURSIVE FilterKind(_, _)
\* devices.filter(device => device.kind === kind): walks the array from the
\* front and appends each entry the predicate accepts.
FilterKind(list, kind) ==
    IF list = << >> THEN << >>
    ELSE (IF Head(list).kind = kind THEN << Head(list) >> ELSE << >>)
         \o FilterKind(Tail(list), kind)

GetCameras(list) == FilterKind(list, "videoinput")
GetMicrophones(list) == FilterKind(list, "audioinput")
GetPlaybackDevices(list) == FilterKind(list, "audiooutput")

QueryOps == {"getDevices", "getCameras", "getMicrophones",
             "getPlaybackDevices"}

\* What the operation makes of the list enumerateDevices resolved with.
QueryResult(op, list) ==
    CASE op = "getDevices" -> list
      [] op = "getCameras" -> GetCameras(list)
      [] op = "getMicrophones" -> GetMicrophones(list)
      [] op = "getPlaybackDevices" -> GetPlaybackDevices(list)

\* One of the four queries is called: enumerateDevices is issued.
QueryCall(op) ==
    /\ op \in QueryOps
    /\ query.pc # "awaiting"
    /\ query' = [pc |-> "awaiting", op |-> op]
    /\ UNCHANGED << hookVars, permState, permCall >>

\* enumerateDevices resolved with the platform's list.
QueryResolve ==
    /\ query.pc = "awaiting"
    /\ query' = [pc |-> "resolved", op |-> query.op,
                 input |-> platformDevices,
                 out |-> QueryResult(query.op, platformDevices)]
    /\ UNCHANGED << hookVars, permState, permCall >>

\* enumerateDevices rejected: the rejection reaches the caller.
QueryReject ==
    /\ query.pc = "awaiting"
    /\ query' = [pc |-> "rejected", op |-> query.op]
    /\ UNCHANGED << hookVars, permState, permCall >>

RECURSIVE SeqsUpTo(_, _)
\* Every sequence over set of length at most n.
SeqsUpTo(set, n) ==
    IF n = 0 THEN { << >> }
    ELSE LET shorter == SeqsUpTo(set, n - 1)
         IN  shorter \cup { Append(q, x) : q \in shorter, x \in set }

InitQuery ==
    /\ \E list \in SeqsUpTo(DeviceInfo, MaxLen) : HookInit(list)
    /\ onDeviceChanged = "none"
    /\ permState = [ n \in {"camera", "microphone"} |-> "prompt" ]
    /\ permCall = Idle
    /\ query = Idle

NextQuery ==
    \/ \E op \in QueryOps : QueryCall(op)
    \/ QueryResolve
    \/ QueryReject

SpecQuery == InitQuery /\ [][NextQuery]_vars

(* ---------- checkPermissions / requestPermission (lines 74-113) -------- *)
\* type Permission, with "none" for an absent argument.
Scopes == {"none", "camera", "microphone", "speaker"}
PermNames == {"camera", "microphone"}
PermStates == {"granted", "denied", "prompt"}

\* A second test that lost its `!permissions ||`.
QueryOptsMutant(permissions) ==
    (IF permissions = "none" \/ permissions = "camera"
     THEN << "camera" >> ELSE << >>)
    \o (IF permissions = "microphone"
        THEN << "microphone" >> ELSE << >>)

\* queryOpts as lines 79-82 build it.
QueryOpts(permissions) ==
    (IF permissions = "none" \/ permissions = "camera"
     THEN << "camera" >> ELSE << >>)
    \o (IF permissions = "none" \/ permissions = "microphone"
        THEN << "microphone" >> ELSE << >>)

\* constraints as lines 96-100 build it: the kinds requested.
Constraints(permissions) ==
    (IF permissions = "none" \/ permissions = "camera"
     THEN {"video"} ELSE {})
    \cup (IF permissions = "none" \/ permissions = "microphone"
          THEN {"audio"} ELSE {})

\* A delegation that forgets the scope.
DelegatedScopeMutant(permissions) == "none"

\* The argument requestPermission hands to checkPermissions (106, 109).
DelegatedScope(permissions) == permissions

\* result.set(name, value)
MapSet(m, name, value) ==
    [ n \in DOMAIN m \cup {name} |-> IF n = name THEN value ELSE m[n] ]

EmptyMap == [ n \in {} |-> FALSE ]

\* checkPermissions(permissions) up to its first await; with nothing to
\* query it resolves with the empty map.
StartCheck(op, scope, acquired, permissions) ==
    [op |-> op, scope |-> scope, acquired |-> acquired,
     checked |-> permissions,
     pc |-> IF QueryOpts(permissions) = << >> THEN "resolved" ELSE "query",
     queryOpts |-> QueryOpts(permissions),
     queried |-> << >>, answers |-> EmptyMap, result |-> EmptyMap]

PermCallDone == permCall.pc \in {"idle", "resolved", "rejected"}

CheckPermissionsCall(scope) ==
    /\ scope \in Scopes
    /\ PermCallDone
    /\ permCall' = StartCheck("checkPermissions", scope, "none", scope)
    /\ UNCHANGED << hookVars, permState, query >>

\* requestPermission(permissions) up to its await of getUserMedia.
RequestPermissionCall(scope) ==
    /\ scope \in Scopes
    /\ PermCallDone
    /\ permCall' = [op |-> "requestPermission", scope |-> scope,
                    pc |-> "getUserMedia"]
    /\ UNCHANGED << hookVars, permState, query >>

\* A request that keeps its transient stream running.
RequestAcquiredMutant ==
    /\ permCall.pc = "getUserMedia"
    /\ Constraints(permCall.scope) # {}
    /\ nextStream \in StreamIds
    /\ LET s == nextStream
           new == { << s, k >> : k \in Constraints(permCall.scope) }
           created == [ t \in TrackIds |->
                          IF t \in new
                          THEN [enabled |-> TRUE, stops |-> 0,
                                device |-> "default"]
                          ELSE trackState[t] ]
       IN  /\ nextStream' = s + 1
           /\ streamTracks' = [streamTracks EXCEPT
                 ![s] = (IF << s, "audio" >> \in new
                         THEN << << s, "audio" >> >> ELSE << >>)
                        \o (IF << s, "video" >> \in new
                            THEN << << s, "video" >> >> ELSE << >>)]
           /\ trackState' = created
    /\ permCall' = StartCheck("requestPermission", permCall.scope, "ok",
                              DelegatedScope(permCall.scope))
    /\ UNCHANGED << mounted, devices, activeStream, closure, onDeviceChanged,
                    listeners, pendingEnum, lastNotified, platformDevices,
                    callVars, permState, query >>

\* getUserMedia resolved (lines 103-106): every track of the transient
\* stream is stopped, then checkPermissions is called.  getUserMedia rejects
\* a request that asks for neither audio nor video.
RequestAcquired ==
    /\ permCall.pc = "getUserMedia"
    /\ Constraints(permCall.scope) # {}
    /\ nextStream \in StreamIds
    /\ LET s == nextStream
           new == { << s, k >> : k \in Constraints(permCall.scope) }
           created == [ t \in TrackIds |->
                          IF t \in new
                          THEN [enabled |-> TRUE, stops |-> 0,
                                device |-> "default"]
                          ELSE trackState[t] ]
       IN  /\ nextStream' = s + 1
           /\ streamTracks' = [streamTracks EXCEPT
                 ![s] = (IF << s, "audio" >> \in new
                         THEN << << s, "audio" >> >> ELSE << >>)
                        \o (IF << s, "video" >> \in new
                            THEN << << s, "video" >> >> ELSE << >>)]
           /\ trackState' = StopAll(created, new)
    /\ permCall' = StartCheck("requestPermission", permCall.scope, "ok",
                              DelegatedScope(permCall.scope))
    /\ UNCHANGED << mounted, devices, activeStream, closure, onDeviceChanged,
                    listeners, pendingEnum, lastNotified, platformDevices,
                    callVars, permState, query >>

\* getUserMedia rejected (lines 107-110): log, then checkPermissions.
RequestFailed ==
    /\ permCall.pc = "getUserMedia"
    /\ permCall' = StartCheck("requestPermission", permCall.scope, "failed",
                              DelegatedScope(permCall.scope))
    /\ UNCHANGED << hookVars, permState, query >>

\* navigator.permissions.query(opt) resolved (lines 85-86).
PermQueryResolve ==
    /\ permCall.pc = "query"
    /\ LET name == Head(permCall.queryOpts)
           rest == Tail(permCall.queryOpts)
       IN  permCall' = [permCall EXCEPT
              !.queryOpts = rest,
              !.queried = Append(@, name),
              !.answers = MapSet(@, name, permState[name]),
              !.result = MapSet(@, name, permState[name] = "granted"),
              !.pc = IF rest = << >> THEN "resolved" ELSE "query"]
    /\ UNCHANGED << hookVars, permState, query >>

\* navigator.permissions.query(opt) rejected: nothing catches it, so the
\* call rejects (for requestPermission too: it returns the promise).
PermQueryReject ==
    /\ permCall.pc = "query"
    /\ permCall' = [permCall EXCEPT !.pc = "rejected",
                                    !.queried = Append(@, Head(permCall.queryOpts))]
    /\ UNCHANGED << hookVars, permState, query >>

\* The user or the browser changes a permission.
PermChange(name, st) ==
    /\ name \in PermNames
    /\ st \in PermStates
    /\ permState[name] # st
    /\ permState' = [permState EXCEPT ![name] = st]
    /\ UNCHANGED << hookVars, permCall, query >>

InitPerm ==
    /\ HookInit(InitialList)
    /\ onDeviceChanged = "none"
    /\ permState \in [PermNames -> PermStates]
    /\ permCall = Idle
    /\ query = Idle

NextPerm ==
    \/ \E scope \in Scopes : CheckPermissionsCall(scope)
    \/ \E scope \in Scopes : RequestPermissionCall(scope)
    \/ RequestAcquired
    \/ RequestFailed
    \/ PermQueryResolve
    \/ PermQueryReject
    \/ \E name \in PermNames, st \in PermStates : PermChange(name, st)

SpecPerm == InitPerm /\ [][NextPerm]_vars

(* ---------------------------- request spec ----------------------------- *)
\* requestPermission called next to the toggles, so that a capture stream
\* may be active, pending or unrendered while the transient stream is
\* acquired and released.  The renders are those that follow an adoption.
InitRequest ==
    /\ Init
    /\ onDeviceChanged = "none"

ToggleNextToRequest(op, deviceId) ==
    /\ Len(returns) + Len(inflight) < MaxToggles
    /\ ToggleCall(op, deviceId)

NextRequest ==
    \/ \E op \in ToggleOps, d \in DeviceIdArgs : ToggleNextToRequest(op, d)
    \/ \E i \in 1..MaxToggles : ToggleResolve(i)
    \/ Render(onDeviceChanged)
    \/ \E j \in 1..MaxPending : EnumResolve(j)
    \/ \E scope \in Scopes : RequestPermissionCall(scope)
    \/ RequestAcquired
    \/ RequestFailed
    \/ PermQueryResolve
    \/ PermQueryReject

SpecRequest == InitRequest /\ [][NextRequest]_vars

(* ------------------------- lifecycle properties ------------------------ *)
Last(seq) == seq[Len(seq)]

\* A toggle call returns in this step.
Returning == Len(returns') = Len(returns) + 1

\* The i-th pending call is the one whose getUserMedia settles in this step.
Settling(i) ==
    /\ i \in 1..Len(inflight)
    /\ Returning
    /\ inflight' = RemoveAt(inflight, i)

\* Stream a holds a track of kind k that is live (never stopped).
LiveTrack(a, k) ==
    \E t \in SeqRange(TracksOfKind(GetTracks(a), k)) : Live(trackState, t)

\* Stream a holds a track of kind k that is live and enabled.
LiveEnabledTrack(a, k) ==
    \E t \in SeqRange(TracksOfKind(GetTracks(a), k)) :
        Live(trackState, t) /\ trackState[t].enabled

\* Every track getUserMedia has created so far.
CreatedTracks == UNION { SeqRange(streamTracks[s]) : s \in StreamIds }

\* getUserMedia calls the toggles have issued so far.
Acquisitions ==
    Len(inflight)
    + Cardinality({ i \in 1..Len(returns) : returns[i].outcome # "none" })

\* C1: when a toggle adopts a new stream while the active stream it saw
\* holds a live track of the other kind, the adopted stream holds that same
\* track, still live, next to a track of the toggled kind from the requested
\* device.
C1_OtherKindPreserved ==
    [][ \A i \in 1..Len(inflight) :
          LET c == inflight[i]
              k == KindOf(c.op)
          IN  ( /\ Settling(i)
                /\ Last(returns').outcome = "resolved"
                /\ mounted
                /\ activeStream # NoStream
                /\ c.closure = activeStream
                /\ LiveTrack(activeStream, OtherKind(k)) )
              => /\ \E t \in SeqRange(TracksOfKind(GetTracks(activeStream),
                                                   OtherKind(k))) :
                       /\ t \in SeqRange(streamTracks'[activeStream'])
                       /\ Live(trackState', t)
                 /\ \E t \in SeqRange(TracksOfKind(streamTracks'[activeStream'],
                                                   k)) :
                       trackState'[t].device = Constraint(c.deviceId)
      ]_vars

\* C2: from no active stream, successive non-overlapping calls of one toggle
\* return true, false, true, and only the first issues getUserMedia.
C2_TrueFalseTrue ==
    ( /\ ~ overlapped
      /\ returns # << >>
      /\ returns[1].outcome = "resolved"
      /\ \A i \in 1..Len(returns) : returns[i].op = returns[1].op
      /\ \A i \in 1..Len(inflight) : inflight[i].op = returns[1].op )
    => /\ \A i \in 1..Len(returns) :
             i <= 3 => returns[i].ret = (i % 2 = 1)
       /\ Len(returns) + Len(inflight) <= 3 => Acquisitions = 1

\* C3: a toggle whose getUserMedia is rejected returns false and leaves the
\* active stream, every stream's tracks, every track's flags and the device
\* list as they were, both when it suspends in getUserMedia and when the
\* rejection arrives.
C3_RejectMutatesNothing ==
    [][ /\ Len(inflight') > Len(inflight)
           => UNCHANGED << activeStream, closure, streamTracks, trackState,
                           devices >>
        /\ ( Returning /\ Last(returns').outcome = "rejected" )
           => /\ Last(returns').ret = FALSE
              /\ UNCHANGED << activeStream, closure, streamTracks, trackState,
                              devices >>
      ]_vars

\* A rejected toggle has returned while a stream adopted by an earlier,
\* finished call is active and live.
C3_Witness ==
    /\ returns # << >>
    /\ Last(returns).outcome = "rejected"
    /\ ~ overlapped
    /\ activeStream # NoStream
    /\ \E k \in TrackKinds : LiveEnabledTrack(activeStream, k)

\* C4: after teardown every track of the active stream has received stop()
\* exactly once and no devicechange listener is left attached.
C4_StopOnceAtTeardown ==
    ( ~ mounted /\ activeStream # NoStream )
    => /\ \A t \in SeqRange(GetTracks(activeStream)) : trackState[t].stops = 1
       /\ listeners = {}

\* C5: after teardown no track acquired by the hook is live.
C5_NoLiveTrackAfterTeardown ==
    ~ mounted => \A t \in CreatedTracks : ~ Live(trackState, t)

\* C10: while mounted, a toggle that overlapped no other toggle returns true
\* exactly when the active stream then holds a live, enabled track of the
\* toggled kind.
C10_ReturnsNewState ==
    [][ ( Returning /\ mounted' /\ ~ overlapped' )
        => ( Last(returns').ret
             <=> ( /\ activeStream' # NoStream
                   /\ LiveEnabledTrack(activeStream,
                                       KindOf(Last(returns).op))' ) )
      ]_vars

\* C11: while mounted, a toggle that was given a deviceId, overlapped no
\* other toggle and returns true leaves in the active stream an enabled
\* track of its kind that was acquired with exactly that deviceId.
C11_TogglesThatDevice ==
    [][ ( /\ Returning
          /\ mounted'
          /\ ~ overlapped'
          /\ Last(returns').deviceId # ""
          /\ Last(returns').ret )
        => \E t \in SeqRange(TracksOfKind(streamTracks'[activeStream'],
                                          KindOf(Last(returns').op))) :
              /\ trackState'[t].enabled
              /\ trackState'[t].device = Last(returns').deviceId
      ]_vars


\* C13: while mounted with no toggle pending, no state update unrendered
\* and no enumeration pending, at most one stream holds a live track and it
\* is the active stream.
LiveStreams ==
    { s \in StreamIds : \E t \in SeqRange(streamTracks[s]) : Live(trackState, t) }

Quiescent ==
    /\ mounted
    /\ inflight = << >>
    /\ closure = activeStream
    /\ pendingEnum = << >>

C13_OneLiveStream ==
    Quiescent => /\ Cardinality(LiveStreams) <= 1
                 /\ LiveStreams \subseteq { activeStream }

\* A toggle call is issued in this step, and its operation.
CallIssued ==
    Len(returns') + Len(inflight') = Len(returns) + Len(inflight) + 1

IssuedOp ==
    IF inflight' # inflight THEN Last(inflight').op ELSE Last(returns').op

\* C14: a toggle flips only when the stream it captured holds a track of its
\* kind, otherwise it issues its own getUserMedia; and every getUserMedia
\* that resolves while mounted returns true and makes its fresh stream the
\* active stream, whatever was adopted since the call was issued.  So two
\* overlapping calls that both saw no audio track each acquire, both return
\* true, and the later adoption overwrites the earlier.
C14_RaceAdoptsBoth ==
    [][ /\ ( CallIssued /\ inflight' = inflight )
           => FirstTrack(closure, KindOf(IssuedOp)) # << >>
        /\ ( CallIssued /\ inflight' # inflight )
           => /\ FirstTrack(closure, KindOf(IssuedOp)) = << >>
              /\ Last(inflight').closure = closure
        /\ \A i \in 1..Len(inflight) :
              ( Settling(i) /\ Last(returns').outcome = "resolved" /\ mounted )
              => /\ Last(returns').ret
                 /\ activeStream' = nextStream
                 /\ nextStream' = nextStream + 1
                 /\ streamTracks'[activeStream'] =
                       NewStreamTracks(nextStream, KindOf(inflight[i].op))
      ]_vars

\* Two overlapping toggleMicrophone calls both acquired and returned true;
\* the second stream is active and the first, overwritten, is still live.
C14_Witness ==
    /\ mounted
    /\ overlapped
    /\ Len(returns) = 2
    /\ \A i \in 1..2 : /\ returns[i].op = "toggleMicrophone"
                       /\ returns[i].outcome = "resolved"
                       /\ returns[i].ret
    /\ Acquisitions = 2
    /\ activeStream = 2
    /\ Live(trackState, << 1, "audio" >>)
    /\ Live(trackState, << 2, "audio" >>)

\* C15: a toggle called while the active stream holds a track of its kind
\* issues no getUserMedia; it flips that track's enabled flag, returns the
\* new flag and changes nothing else, whatever deviceId it was given.
C15_FlipOnly ==
    [][ ( /\ CallIssued
          /\ mounted
          /\ FirstTrack(activeStream, KindOf(IssuedOp)) # << >> )
        => LET t == FirstTrack(activeStream, KindOf(IssuedOp))[1]
           IN  /\ inflight' = inflight
               /\ Returning
               /\ Last(returns').ret = ~ trackState[t].enabled
               /\ trackState' = [trackState EXCEPT ![t].enabled = ~ @]
               /\ UNCHANGED << activeStream, streamTracks, nextStream >>
      ]_vars

\* C19: while mounted every track of the active stream is live.
C19_ActiveTracksLive ==
    ( mounted /\ activeStream # NoStream )
    => \A t \in SeqRange(GetTracks(activeStream)) : Live(trackState, t)

\* C20: at most one devicechange listener of the hook is attached: the one
\* of the committed effect while mounted, none after teardown; a cleanup
\* removes nothing but the listener its effect added.
C20_OneListener ==
    /\ [] /\ Cardinality(listeners) <= 1
          /\ mounted => listeners = { onDeviceChanged }
          /\ ~ mounted => listeners = {}
    /\ [][ listeners \ listeners' \subseteq { onDeviceChanged } ]_vars

\* Teardown after a toggle adopted a stream and a re-render with another
\* callback identity re-ran the subscription effect.
C20_Witness ==
    /\ ~ mounted
    /\ listeners = {}
    /\ returns # << >>
    /\ activeStream # NoStream
    /\ \E t \in SeqRange(GetTracks(activeStream)) : trackState[t].stops = 2

(* --------------------------- refresh properties ------------------------ *)
\* The j-th pending enumeration settles (resolves or rejects) in this step.
EnumSettles(j) ==
    /\ j \in 1..Len(pendingEnum)
    /\ \/ pendingEnum' = RemoveAt(MarkStale(pendingEnum, j), j)
       \/ pendingEnum' = RemoveAt(pendingEnum, j)

\* A devicechange notification is delivered in this step.
Notified == platformDevices' # platformDevices

\* C12: while mounted, a notification issues exactly one enumeration, for
\* the current callback; an enumeration that settles either fails and leaves
\* the list and the callback alone, or replaces the whole DeviceList with
\* its result and hands the callback, if there is one, that same list.
C12_NotificationRefreshes ==
    [][ /\ ( mounted /\ Notified )
           => /\ Len(pendingEnum') = Len(pendingEnum) + 1
              /\ Last(pendingEnum').cb = onDeviceChanged
              /\ Last(pendingEnum').list = platformDevices'
        /\ \A j \in 1..Len(pendingEnum) :
              ( mounted /\ EnumSettles(j) )
              => LET e == pendingEnum[j]
                 IN  \/ /\ devices' = devices
                        /\ lastNotified' = lastNotified
                     \/ /\ devices' = e.list
                        /\ lastNotified' =
                              IF e.cb # "none"
                              THEN << [cb |-> e.cb, list |-> devices'] >>
                              ELSE lastNotified
      ]_vars

\* After a notification the new list is in DeviceList and was handed to the
\* callback.
C12_Witness ==
    /\ mounted
    /\ platformDevices # InitialList
    /\ devices = platformDevices
    /\ lastNotified = << [cb |-> "f", list |-> platformDevices] >>
    /\ pendingEnum = << >>

\* C17: while mounted, DeviceList changes only when an enumeration settles
\* that no later-issued enumeration has already overtaken, and it then holds
\* that enumeration's result; so it always holds the result of the most
\* recently issued enumeration that succeeded.
C17_MostRecentlyIssued ==
    [][ mounted
        => \/ devices' = devices
           \/ \E j \in 1..Len(pendingEnum) :
                 /\ EnumSettles(j)
                 /\ ~ pendingEnum[j].stale
                 /\ devices' = pendingEnum[j].list
      ]_vars

\* C18: an enumeration is issued only when a notification is delivered, and
\* the callback is not invoked after teardown.
C18_RefreshOnlyOnNotification ==
    [][ /\ Len(pendingEnum') > Len(pendingEnum) => Notified
        /\ lastNotified' # lastNotified => mounted
      ]_vars

(* ---------------------- query and permission properties ---------------- *)
\* enumerateDevices' kind that each filter is documented to return.
WantedKind(op) ==
    CASE op = "getCameras" -> "videoinput"
      [] op = "getMicrophones" -> "audioinput"
      [] op = "getPlaybackDevices" -> "audiooutput"

\* C6: each filter returns exactly the entries of its kind, in the order
\* and number the enumeration gave them, and the three filters together
\* account for every entry once.
C6_FiltersAreSubsequences ==
    ( query.pc = "resolved" /\ query.op # "getDevices" )
    => /\ query.out = SelectSeq(query.input,
                                LAMBDA d : d.kind = WantedKind(query.op))
       /\ Len(GetCameras(query.input)) + Len(GetMicrophones(query.input))
            + Len(GetPlaybackDevices(query.input)) = Len(query.input)
       /\ \A d \in SeqRange(GetCameras(query.input)) : d.kind = "videoinput"
       /\ \A d \in SeqRange(GetMicrophones(query.input)) :
             d.kind = "audioinput"
       /\ \A d \in SeqRange(GetPlaybackDevices(query.input)) :
             d.kind = "audiooutput"

\* A filter resolved on a list that holds two different entries of its kind
\* around an entry of another kind.
C6_Witness ==
    /\ query.pc = "resolved"
    /\ query.op = "getMicrophones"
    /\ Len(query.input) = 3
    /\ query.input[1].kind = "audioinput"
    /\ query.input[2].kind = "videoinput"
    /\ query.input[3].kind = "audioinput"
    /\ query.input[1] # query.input[3]
    /\ Len(query.out) = 2

\* The permission kinds a scope stands for.
ScopeKinds(scope) ==
    CASE scope = "none" -> {"camera", "microphone"}
      [] scope = "camera" -> {"camera"}
      [] scope = "microphone" -> {"microphone"}
      [] scope = "speaker" -> {}

\* checkPermissions is running or has finished.
Checking == permCall.pc \in {"query", "resolved", "rejected"}

\* C7: checkPermissions queries only the kinds its scope stands for, never
\* "speaker"; when it resolves, the keys of its result are the kinds queried
\* and are all the kinds of the scope, and each value is true exactly when
\* the service answered granted.
C7_CheckPermissionsScope ==
    Checking
    => /\ SeqRange(permCall.queried) \subseteq ScopeKinds(permCall.checked)
       /\ "speaker" \notin SeqRange(permCall.queried)
       /\ permCall.pc = "resolved"
          => /\ DOMAIN permCall.result = SeqRange(permCall.queried)
             /\ DOMAIN permCall.result = ScopeKinds(permCall.checked)
             /\ Len(permCall.queried) = Cardinality(ScopeKinds(permCall.checked))
             /\ \A n \in DOMAIN permCall.result :
                   permCall.result[n] = (permCall.answers[n] = "granted")

\* checkPermissions() without a scope resolved after a granted and a
\* not-granted answer.
C7_Witness ==
    /\ permCall.pc = "resolved"
    /\ permCall.op = "checkPermissions"
    /\ permCall.scope = "none"
    /\ permCall.result["camera"] = TRUE
    /\ permCall.result["microphone"] = FALSE
    /\ permCall.answers["microphone"] = "prompt"

\* C8: requestPermission(scope) resolves with what checkPermissions(scope)
\* produces for that scope, whether the transient getUserMedia succeeded or
\* failed: keys are the kinds of the scope, values the service's answers.
C8_RequestFollowsScope ==
    ( permCall.pc = "resolved" /\ permCall.op = "requestPermission" )
    => /\ permCall.acquired \in {"ok", "failed"}
       /\ DOMAIN permCall.result = ScopeKinds(permCall.scope)
       /\ \A n \in DOMAIN permCall.result :
             permCall.result[n] = (permCall.answers[n] = "granted")

\* requestPermission("camera") resolved after a successful acquisition
\* with only the key "camera".
C8_Witness ==
    /\ permCall.pc = "resolved"
    /\ permCall.op = "requestPermission"
    /\ permCall.scope = "camera"
    /\ permCall.acquired = "ok"
    /\ DOMAIN permCall.result = {"camera"}
    /\ permCall.result["camera"] = TRUE

\* The pending requestPermission leaves its await of getUserMedia.
RequestSettles ==
    /\ permCall.pc = "getUserMedia"
    /\ permCall'.pc # "getUserMedia"

\* C16: the step in which requestPermission's getUserMedia settles leaves
\* the active stream, the device list, every other stream and every
\* existing track as they were; when it resolved, every track of the
\* transient stream is stopped before checkPermissions starts; no step of a
\* requestPermission call changes the active stream or the device list, and
\* the active stream only ever becomes a stream a toggle acquired in that
\* same step, never the transient one.
C16_RequestKeepsCaptureState ==
    [][ /\ RequestSettles
           => /\ UNCHANGED << activeStream, closure, devices, callVars >>
              /\ \A t \in CreatedTracks : trackState'[t] = trackState[t]
              /\ \A s \in StreamIds \ { nextStream } :
                    streamTracks'[s] = streamTracks[s]
              /\ permCall'.acquired = "ok"
                 => /\ nextStream \in StreamIds
                    /\ nextStream' = nextStream + 1
                    /\ activeStream' # nextStream
                    /\ { t[2] : t \in SeqRange(streamTracks'[nextStream]) }
                          = Constraints(permCall.scope)
                    /\ \A t \in SeqRange(streamTracks'[nextStream]) :
                          ~ Live(trackState', t)
              /\ permCall'.acquired # "ok"
                 => UNCHANGED streamVars
        /\ permCall' # permCall
           => /\ UNCHANGED << activeStream, devices >>
              /\ \A t \in CreatedTracks : trackState'[t] = trackState[t]
        /\ activeStream' # activeStream
           => /\ activeStream' = nextStream
              /\ Returning
              /\ permCall' = permCall
        /\ \A t \in CreatedTracks :
              ~ Live(trackState, t) => ~ Live(trackState', t)
      ]_vars

\* requestPermission() resolved with its result while a stream adopted by a
\* toggle is active with a live, enabled track, after a transient stream
\* with an audio and a video track was acquired and released.
C16_Witness ==
    /\ mounted
    /\ permCall.pc = "resolved"
    /\ permCall.op = "requestPermission"
    /\ permCall.acquired = "ok"
    /\ activeStream # NoStream
    /\ closure = activeStream
    /\ \E t \in SeqRange(GetTracks(activeStream)) :
          Live(trackState, t) /\ trackState[t].enabled
    /\ \E s \in StreamIds \ { activeStream } :
          /\ Len(streamTracks[s]) = 2
          /\ \A t \in SeqRange(streamTracks[s]) : trackState[t].stops = 1

\* C9: requestPermission never rejects.
C9_RequestNeverRejects ==
    ( permCall.pc # "idle" /\ permCall.op = "requestPermission" )
    => permCall.pc # "rejected"

====
